---- MODULE Spec2Model ----
(***************************************************************************)
(* Fixed-point decimal fields and the format-1 MULTIPLY engine of          *)
(* NC101A.py (class Field, NC101AProgram._resolve_value and                *)
(* NC101AProgram._multiply).                                               *)
(*                                                                         *)
(* A Python Decimal is modelled as the triple the decimal module keeps:    *)
(* sign, coefficient (a sequence of decimal digits, most significant       *)
(* first, no leading zeros, <<0>> for zero) and exponent.  The arithmetic  *)
(* context is the one the program installs: 60 significant digits,         *)
(* ROUND_HALF_EVEN.                                                        *)
(***************************************************************************)
EXTENDS Integers, Sequences, FiniteSets, TLC

VARIABLES fields, last, calls

vars == <<fields, last, calls>>

(***************************************************************************)
(* Coefficient arithmetic on digit sequences.                              *)
(***************************************************************************)
Zeros(n) == [i \in 1..n |-> 0]

Reverse(s) == [i \in 1..Len(s) |-> s[Len(s) + 1 - i]]

IsZeroCoef(s) == \A i \in 1..Len(s) : s[i] = 0

StripZeros(s) ==
    IF IsZeroCoef(s) THEN <<0>>
    ELSE SubSeq(s, CHOOSE i \in 1..Len(s) :
                       s[i] # 0 /\ \A j \in 1..(i - 1) : s[j] = 0,
                Len(s))

AddOne(s) ==
    IF \A i \in 1..Len(s) : s[i] = 9 THEN <<1>> \o Zeros(Len(s))
    ELSE LET m == CHOOSE i \in 1..Len(s) :
                      s[i] < 9 /\ \A j \in (i + 1)..Len(s) : s[j] = 9
         IN  [i \in 1..Len(s) |->
                IF i < m THEN s[i] ELSE IF i = m THEN s[i] + 1 ELSE 0]

\* -1, 0, 1 as a < b, a = b, a > b
CmpCoef(a, b) ==
    LET x == StripZeros(a)
        y == StripZeros(b)
    IN  IF Len(x) < Len(y) THEN -1
        ELSE IF Len(x) > Len(y) THEN 1
        ELSE IF x = y THEN 0
        ELSE LET d == CHOOSE i \in 1..Len(x) :
                          x[i] # y[i] /\ \A j \in 1..(i - 1) : x[j] = y[j]
             IN  IF x[d] < y[d] THEN -1 ELSE 1

\* digit of weight 10^i of s (i = 0 is the last digit)
DigitAt(s, i) == IF i >= 0 /\ i < Len(s) THEN s[Len(s) - i] ELSE 0

\* sum over i..Len(b)-1 of b's digit i times a's digit k - i
RECURSIVE ColumnSum(_, _, _, _)
ColumnSum(a, b, k, i) ==
    IF i > k \/ i >= Len(b) THEN 0
    ELSE DigitAt(b, i) * DigitAt(a, k - i) + ColumnSum(a, b, k, i + 1)

\* one pass of carries over columns (index 1 is the column of weight 1)
CarryPass(c) ==
    [k \in 1..Len(c) |-> (c[k] % 10) + (IF k > 1 THEN c[k - 1] \div 10 ELSE 0)]

\* columns of 0..10 to digits: a column takes a carry when the nearest lower
\* column that is not 9 is 10
CarryIn(c, k) ==
    IF \E m \in 1..(k - 1) : c[m] >= 10 /\ \A j \in (m + 1)..(k - 1) : c[j] = 9
    THEN 1 ELSE 0

Columns(a, b) ==
    LET x == IF Len(a) >= Len(b) THEN a ELSE b
        y == IF Len(a) >= Len(b) THEN b ELSE a
    IN  [k \in 1..(Len(a) + Len(b)) |-> ColumnSum(x, y, k - 1, 0)]

\* the product of two coefficients
MulCoef(a, b) ==
    LET c == CarryPass(CarryPass(CarryPass(CarryPass(Columns(a, b)))))
    IN  StripZeros(Reverse([k \in 1..Len(c) |-> (c[k] + CarryIn(c, k)) % 10]))

(***************************************************************************)
(* Rounding of a coefficient when its last k digits are dropped            *)
(* (decimal's _round_down, _round_half_up, _round_half_even).              *)
(***************************************************************************)
ROUND_DOWN == "ROUND_DOWN"
ROUND_HALF_UP == "ROUND_HALF_UP"
ROUND_HALF_EVEN == "ROUND_HALF_EVEN"

DropDigits(c, k, mode) ==
    IF k <= 0 THEN c
    ELSE
    LET p == IF k >= Len(c) THEN Zeros(k - Len(c) + 1) \o c ELSE c
        n == Len(p) - k
        kept == SubSeq(p, 1, n)
        first == p[n + 1]
        rest == \E i \in (n + 2)..Len(p) : p[i] # 0
        up == CASE mode = ROUND_DOWN -> FALSE
                [] mode = ROUND_HALF_UP -> first >= 5
                [] mode = ROUND_HALF_EVEN ->
                      \/ first > 5
                      \/ first = 5 /\ rest
                      \/ first = 5 /\ ~rest /\ kept[n] % 2 = 1
    IN  StripZeros(IF up THEN AddOne(kept) ELSE kept)

(***************************************************************************)
(* Decimal values.                                                         *)
(***************************************************************************)
Dec(sign, int, exp) == [kind |-> "finite", sign |-> sign, int |-> int, exp |-> exp]
NaN == [kind |-> "nan", sign |-> 0, int |-> <<0>>, exp |-> 0]
Infinity(sign) == [kind |-> "inf", sign |-> sign, int |-> <<0>>, exp |-> 0]
\* the InvalidOperation (or ValueError) a decimal operation raises
InvalidOperation == [kind |-> "invalid", sign |-> 0, int |-> <<0>>, exp |-> 0]

IsFinite(d) == d.kind = "finite"
IsZero(d) == IsFinite(d) /\ IsZeroCoef(d.int)

\* the coefficient of d at exponent e <= d.exp
Scaled(d, e) == StripZeros(d.int \o Zeros(d.exp - e))

MinExp(a, b) == IF a.exp < b.exp THEN a.exp ELSE b.exp

\* numeric comparison of finite decimals: -1, 0, 1
DecCmp(a, b) ==
    LET e == MinExp(a, b)
        x == Scaled(a, e)
        y == Scaled(b, e)
        sa == IF IsZeroCoef(x) THEN 0 ELSE IF a.sign = 1 THEN -1 ELSE 1
        sb == IF IsZeroCoef(y) THEN 0 ELSE IF b.sign = 1 THEN -1 ELSE 1
    IN  IF sa # sb THEN (IF sa < sb THEN -1 ELSE 1)
        ELSE IF sa = 0 THEN 0
        ELSE IF sa = 1 THEN CmpCoef(x, y)
        ELSE CmpCoef(y, x)

DecEq(a, b) == IsFinite(a) /\ IsFinite(b) /\ DecCmp(a, b) = 0
DecLess(a, b) == IsFinite(a) /\ IsFinite(b) /\ DecCmp(a, b) = -1

(***************************************************************************)
(* The arithmetic context: getcontext().prec = 60, default rounding        *)
(* ROUND_HALF_EVEN.                                                        *)
(***************************************************************************)
prec == 60

\* Decimal._fix: a result of more than prec digits is rounded to prec digits
Fix(d) ==
    IF Len(d.int) <= prec THEN d
    ELSE LET k == Len(d.int) - prec
             c == DropDigits(d.int, k, ROUND_HALF_EVEN)
         IN  IF Len(c) > prec
             THEN Dec(d.sign, SubSeq(c, 1, prec), d.exp + k + 1)
             ELSE Dec(d.sign, c, d.exp + k)

\* the mathematical product of two finite decimals
ExactMul(a, b) ==
    Dec((a.sign + b.sign) % 2, MulCoef(a.int, b.int), a.exp + b.exp)

\* Decimal.__mul__ under the context (b is a field's value: finite)
DecMul(a, b) ==
    CASE a.kind = "nan" -> NaN
      [] a.kind = "inf" ->
            IF IsZero(b) THEN InvalidOperation
            ELSE Infinity((a.sign + b.sign) % 2)
      [] OTHER -> Fix(ExactMul(a, b))

(***************************************************************************)
(* Decimal(text): the text is a sequence of characters.  The grammar       *)
(* covered is [sign] digits [. digits] | [sign] . digits, and the words    *)
(* NaN and Infinity; any other text raises InvalidOperation.               *)
(***************************************************************************)
DigitChars == <<"0", "1", "2", "3", "4", "5", "6", "7", "8", "9">>

IsDigitChar(ch) == \E i \in 1..10 : DigitChars[i] = ch

DigitVal(ch) == (CHOOSE i \in 1..10 : DigitChars[i] = ch) - 1

ParseDecimal(cs) ==
    LET signed == cs # <<>> /\ cs[1] \in {"-", "+"}
        sign == IF cs # <<>> /\ cs[1] = "-" THEN 1 ELSE 0
        body == IF signed THEN Tail(cs) ELSE cs
        points == {i \in 1..Len(body) : body[i] = "."}
        point == IF points = {} THEN Len(body) + 1
                 ELSE CHOOSE i \in points : TRUE
        digits == SubSeq(body, 1, point - 1) \o SubSeq(body, point + 1, Len(body))
    IN  IF body = <<"N", "a", "N">> THEN NaN
        ELSE IF body = <<"I", "n", "f", "i", "n", "i", "t", "y">> THEN Infinity(sign)
        ELSE IF /\ Cardinality(points) <= 1
                /\ digits # <<>>
                /\ \A i \in 1..Len(digits) : IsDigitChar(digits[i])
             THEN Dec(sign,
                      StripZeros([i \in 1..Len(digits) |-> DigitVal(digits[i])]),
                      IF points = {} THEN 0 ELSE point - Len(body))
             ELSE InvalidOperation

(***************************************************************************)
(* class Field                                                             *)
(***************************************************************************)
Field(name, digits_left, digits_right, signed, value) ==
    [name |-> name, digits_left |-> digits_left, digits_right |-> digits_right,
     signed |-> signed, value |-> value]

clone_value(f) == f.value

\* Decimal.quantize(Decimal("1").scaleb(-digits_right), rounding)
DecQuantize(value, e, mode) ==
    CASE value.kind = "nan" -> NaN
      [] value.kind \in {"inf", "invalid"} -> InvalidOperation
      [] IsZeroCoef(value.int) -> Dec(value.sign, <<0>>, e)
      [] value.exp + Len(value.int) - e > prec -> InvalidOperation
      [] OTHER ->
            LET c == IF value.exp >= e
                     THEN value.int \o Zeros(value.exp - e)
                     ELSE DropDigits(value.int, e - value.exp, mode)
            IN  IF Len(c) > prec THEN InvalidOperation
                ELSE Dec(value.sign, c, e)

\* mutants of Field_quantize: the rounding mode is not selected by the flag,
\* or ties are rounded to even
Field_quantize_always_rounds(f, value, rounded) ==
    DecQuantize(value, 0 - f.digits_right, ROUND_HALF_UP)

Field_quantize_never_rounds(f, value, rounded) ==
    DecQuantize(value, 0 - f.digits_right, ROUND_DOWN)

Field_quantize_half_even(f, value, rounded) ==
    DecQuantize(value, 0 - f.digits_right,
                IF rounded THEN ROUND_HALF_EVEN ELSE ROUND_DOWN)

Field_quantize(f, value, rounded) ==
    DecQuantize(value, 0 - f.digits_right,
                IF rounded THEN ROUND_HALF_UP ELSE ROUND_DOWN)

Limit(f) == Dec(0, <<1>> \o Zeros(f.digits_left), 0)

\* mutants of Field_fits: the bounds are not strict, or the sign of an
\* unsigned field is not looked at
Field_fits_inclusive(f, value) ==
    IF value.kind = "nan" THEN "raise"
    ELSE IF ~f.signed /\ DecLess(value, Dec(0, <<0>>, 0)) THEN "False"
    ELSE IF ~DecLess(value, Dec(1, Limit(f).int, 0)) /\ ~DecLess(Limit(f), value)
         THEN "True" ELSE "False"

\* mutant of Field_fits: an unsigned field refuses every value that carries
\* a minus sign, zero included
Field_fits_sign_bit(f, value) ==
    IF value.kind = "nan" THEN "raise"
    ELSE IF ~f.signed /\ value.sign = 1 THEN "False"
    ELSE IF DecLess(Dec(1, Limit(f).int, 0), value) /\ DecLess(value, Limit(f))
         THEN "True" ELSE "False"

Field_fits_sign_ignored(f, value) ==
    IF value.kind = "nan" THEN "raise"
    ELSE IF DecLess(Dec(1, Limit(f).int, 0), value) /\ DecLess(value, Limit(f))
         THEN "True" ELSE "False"

\* TRUE, FALSE as returned; a comparison with NaN raises
Field_fits(f, value) ==
    IF value.kind = "nan" THEN "raise"
    ELSE IF ~f.signed /\ DecLess(value, Dec(0, <<0>>, 0)) THEN "False"
    ELSE IF DecLess(Dec(1, Limit(f).int, 0), value) /\ DecLess(value, Limit(f))
         THEN "True" ELSE "False"

\* mutant of Field.set: the value is assigned before the fit check
Field_set_assigns_first(f, raw, rounded) ==
    IF Field_quantize(f, raw, rounded).kind = "invalid"
    THEN [ret |-> "False", field |-> f]
    ELSE IF Field_fits(f, Field_quantize(f, raw, rounded)) = "raise"
         THEN [ret |-> "raise", field |-> f]
         ELSE [ret |-> Field_fits(f, Field_quantize(f, raw, rounded)),
               field |-> [f EXCEPT !.value = Field_quantize(f, raw, rounded)]]

\* Field.set: the returned value ("True", "False", or "raise" when the call
\* ends in an exception) and the field afterwards
Field_set(f, raw, rounded) ==
    LET value == Field_quantize(f, raw, rounded)
    IN  IF value.kind = "invalid" THEN [ret |-> "False", field |-> f]
        ELSE IF Field_fits(f, value) # "True"
             THEN [ret |-> Field_fits(f, value), field |-> f]
             ELSE [ret |-> "True", field |-> [f EXCEPT !.value = value]]

(***************************************************************************)
(* str values: TLC does not look inside a string, so the characters of     *)
(* every text the model passes to Decimal(...) are spelled out here.       *)
(***************************************************************************)
\* 0.24 followed by 59 nines: 61 fractional digits
LongLiteral == "0.2499999999999999999999999999999999999999999999999999999999999"

Spelling(text) ==
    CASE text = "80.12" -> <<"8", "0", ".", "1", "2">>
      [] text = "-56" -> <<"-", "5", "6">>
      [] text = "4" -> <<"4">>
      [] text = "20" -> <<"2", "0">>
      [] text = "0" -> <<"0">>
      [] text = "0.00001" -> <<"0", ".", "0", "0", "0", "0", "1">>
      [] text = "12345.6" -> <<"1", "2", "3", "4", "5", ".", "6">>
      [] text = "990000" -> <<"9", "9", "0", "0", "0", "0">>
      [] text = "99999" -> <<"9", "9", "9", "9", "9">>
      [] text = "99" -> <<"9", "9">>
      [] text = "333.333" -> <<"3", "3", "3", ".", "3", "3", "3">>
      [] text = "22.222222" -> <<"2", "2", ".", "2", "2", "2", "2", "2", "2">>
      [] text = "1111111111" -> <<"1", "1", "1", "1", "1", "1", "1", "1", "1", "1">>
      [] text = "333333.333333" -> <<"3", "3", "3", "3", "3", "3", ".", "3", "3", "3", "3", "3", "3">>
      [] text = "0.1" -> <<"0", ".", "1">>
      [] text = "111111111111111111" -> <<"1", "1", "1", "1", "1", "1", "1", "1", "1", "1", "1", "1", "1", "1", "1", "1", "1", "1">>
      [] text = "0.000000001" -> <<"0", ".", "0", "0", "0", "0", "0", "0", "0", "0", "1">>
      [] text = "-1.3" -> <<"-", "1", ".", "3">>
      [] text = "4.99" -> <<"4", ".", "9", "9">>
      [] text = "0.5" -> <<"0", ".", "5">>
      [] text = "2" -> <<"2">>
      [] text = "-1" -> <<"-", "1">>
      [] text = "abc" -> <<"a", "b", "c">>
      [] text = "NaN" -> <<"N", "a", "N">>
      [] text = "Infinity" -> <<"I", "n", "f", "i", "n", "i", "t", "y">>
      [] text = "NOPE" -> <<"N", "O", "P", "E">>
      [] text = "12345.65" -> <<"1", "2", "3", "4", "5", ".", "6", "5">>
      [] text = "12345.64" -> <<"1", "2", "3", "4", "5", ".", "6", "4">>
      [] text = "-12345.65" -> <<"-", "1", "2", "3", "4", "5", ".", "6", "5">>
      [] text = "9.9" -> <<"9", ".", "9">>
      [] text = "10" -> <<"1", "0">>
      [] text = "-10" -> <<"-", "1", "0">>
      [] text = "9" -> <<"9">>
      [] text = "-9" -> <<"-", "9">>
      [] text = "-0.5" -> <<"-", "0", ".", "5">>
      [] text = "-0.4" -> <<"-", "0", ".", "4">>
      [] text = "99.5" -> <<"9", "9", ".", "5">>
      [] text = "99.4" -> <<"9", "9", ".", "4">>
      [] text = "-99.5" -> <<"-", "9", "9", ".", "5">>
      [] text = "100" -> <<"1", "0", "0">>
      [] text = "99.95" -> <<"9", "9", ".", "9", "5">>
      [] text = "-0.05" -> <<"-", "0", ".", "0", "5">>
      [] text = "0.05" -> <<"0", ".", "0", "5">>
      [] text = "72.8" -> <<"7", "2", ".", "8">>
      [] text = "-72.8" -> <<"-", "7", "2", ".", "8">>
      [] text = "1" -> <<"1">>
      [] text = "-99" -> <<"-", "9", "9">>
      [] text = LongLiteral -> <<"0", ".", "2", "4">> \o [i \in 1..59 |-> "9"]

Decimal(text) == ParseDecimal(Spelling(text))

(***************************************************************************)
(* NC101AProgram: the field and constant registries                        *)
(***************************************************************************)
_add_field(name, digits_left, digits_right, signed, initial) ==
    Field(name, digits_left, digits_right, signed, Decimal(initial))

FieldList ==
    << _add_field("MULT1", 3, 2, FALSE, "80.12"),
       _add_field("MULT4", 2, 0, TRUE, "-56"),
       _add_field("MULT5", 1, 0, FALSE, "4"),
       _add_field("MULT6", 2, 0, FALSE, "20"),
       _add_field("WRK_DS_18V00", 18, 0, TRUE, "0"),
       _add_field("WRK_DS_06V06", 6, 6, TRUE, "0"),
       _add_field("WRK_DS_10V00", 10, 0, TRUE, "0"),
       _add_field("WRK_DS_02V00", 2, 0, TRUE, "0"),
       _add_field("WRK_DS_0201P", 4, 0, TRUE, "0"),
       _add_field("WRK_DS_05V00", 5, 0, TRUE, "0"),
       _add_field("WRK_DS_01V00", 1, 0, TRUE, "0"),
       _add_field("WRK_CS_18V00", 18, 0, TRUE, "0"),
       _add_field("WRK_DU_18V00", 18, 0, FALSE, "0"),
       _add_field("WRK_DU_4P1_1", 0, 5, FALSE, "0.00001"),
       _add_field("WRK_DU_5V1_1", 5, 1, FALSE, "12345.6"),
       _add_field("WRK_DU_2P4_1", 6, 0, FALSE, "990000"),
       _add_field("WRK_DU_6V0_1", 6, 0, FALSE, "99999"),
       _add_field("WRK_DU_6V0_2", 6, 0, FALSE, "99999"),
       _add_field("WRK_DU_0V12_1", 0, 12, FALSE, "0.00001"),
       _add_field("WRK_DU_2V0_1", 2, 0, FALSE, "99"),
       _add_field("WRK_DU_2V0_2", 2, 0, FALSE, "0") >>

FieldNames == {FieldList[i].name : i \in 1..Len(FieldList)}

_init_fields ==
    [n \in FieldNames |-> FieldList[CHOOSE i \in 1..Len(FieldList) : FieldList[i].name = n]]

ConstantNames ==
    {"A06THREES_DS_03V03", "A08TWOS_DS_02V06", "A10ONES_DS_10V00",
     "A12THREES_DS_06V06", "AZERO_DS_05V05", "A01ONE_CS_00V01",
     "A18ONES_DS_18V00", "A01ONE_DS_P0801"}

_init_constants ==
    [n \in ConstantNames |->
        CASE n = "A06THREES_DS_03V03" -> Decimal("333.333")
          [] n = "A08TWOS_DS_02V06" -> Decimal("22.222222")
          [] n = "A10ONES_DS_10V00" -> Decimal("1111111111")
          [] n = "A12THREES_DS_06V06" -> Decimal("333333.333333")
          [] n = "AZERO_DS_05V05" -> Decimal("0")
          [] n = "A01ONE_CS_00V01" -> Decimal("0.1")
          [] n = "A18ONES_DS_18V00" -> Decimal("111111111111111111")
          [] n = "A01ONE_DS_P0801" -> Decimal("0.000000001")]

constants == _init_constants

(***************************************************************************)
(* NC101AProgram._resolve_value for a str token; InvalidOperation stands   *)
(* for the exception Decimal(token_str) raises.                            *)
(***************************************************************************)
\* mutant of _resolve_value: a token that does not resolve counts as zero
_resolve_value_lenient(fs, token) ==
    IF token \in DOMAIN fs THEN fs[token].value
    ELSE IF token \in DOMAIN constants THEN constants[token]
    ELSE IF Decimal(token).kind = "invalid" THEN Decimal("0")
    ELSE Decimal(token)

_resolve_value(fs, token) ==
    IF token \in DOMAIN fs THEN fs[token].value
    ELSE IF token \in DOMAIN constants THEN constants[token]
    ELSE Decimal(token)

(***************************************************************************)
(* NC101AProgram._multiply                                                 *)
(***************************************************************************)
receiving_names(multiplier, additional_receivers) ==
    <<multiplier>> \o additional_receivers

SeqRange(s) == {s[i] : i \in 1..Len(s)}

\* snapshots = {name: self.fields[name].clone_value() for name in receiving_names}
Snapshots(fs, names) == [n \in SeqRange(names) |-> clone_value(fs[n])]

\* mutant of Restore: the rollback rebuilds the registry
Restore_reinit(fs, snapshots) == _init_fields

\* mutant of Restore: the rollback is forgotten
Restore_forgotten(fs, snapshots) == fs

\* for target, value in snapshots.items(): self.fields[target].value = value
Restore(fs, snapshots) ==
    [n \in DOMAIN fs |->
        IF n \in DOMAIN snapshots THEN [fs[n] EXCEPT !.value = snapshots[n]]
        ELSE fs[n]]

\* mutant of Assign: only the multiplier's set is checked, the additional
\* receivers are not written
Assign_first_only(fs, names, i, product, rounded, snapshots) ==
    IF Field_set(fs[names[1]], product, names[1] \in rounded).ret = "False"
    THEN [ret |-> "True", fields |-> fs]
    ELSE [ret |-> "False",
          fields |-> [fs EXCEPT ![names[1]] =
                         Field_set(fs[names[1]], product, names[1] \in rounded).field]]

\* mutant of Assign: the snapshot of a receiver is taken when the receiver
\* is about to be written
RECURSIVE Assign_late_snapshot(_, _, _, _, _, _)
Assign_late_snapshot(fs, names, i, product, rounded, snapshots) ==
    IF i > Len(names) THEN [ret |-> "False", fields |-> fs]
    ELSE LET snap == [snapshots EXCEPT ![names[i]] = clone_value(fs[names[i]])]
             r == Field_set(fs[names[i]], product, names[i] \in rounded)
         IN  CASE r.ret = "raise" -> [ret |-> "raise", fields |-> fs]
               [] r.ret = "False" ->
                     [ret |-> "True", fields |-> Restore(fs, snap)]
               [] OTHER ->
                     Assign_late_snapshot([fs EXCEPT ![names[i]] = r.field], names,
                                          i + 1, product, rounded, snap)

\* the loop over receiving_names from position i on: the value returned
\* ("True": size error, "False", or "raise") and the registry afterwards
RECURSIVE Assign(_, _, _, _, _, _)
Assign(fs, names, i, product, rounded, snapshots) ==
    IF i > Len(names) THEN [ret |-> "False", fields |-> fs]
    ELSE LET r == Field_set(fs[names[i]], product, names[i] \in rounded)
         IN  CASE r.ret = "raise" -> [ret |-> "raise", fields |-> fs]
               [] r.ret = "False" ->
                     [ret |-> "True", fields |-> Restore(fs, snapshots)]
               [] OTHER ->
                     Assign([fs EXCEPT ![names[i]] = r.field], names, i + 1,
                            product, rounded, snapshots)

\* the operands, read before any receiver is written
multiplicand_value(fs, multiplicand) == _resolve_value(fs, multiplicand)
multiplier_original(fs, multiplier) == clone_value(fs[multiplier])

Product(fs, multiplicand, multiplier) ==
    DecMul(multiplicand_value(fs, multiplicand), multiplier_original(fs, multiplier))

\* mutant of _multiply: the operands are read again before each receiver is
\* written
RECURSIVE AssignReread(_, _, _, _, _, _, _)
AssignReread(fs, multiplicand, multiplier, names, i, rounded, snapshots) ==
    IF i > Len(names) THEN [ret |-> "False", fields |-> fs]
    ELSE LET r == Field_set(fs[names[i]], Product(fs, multiplicand, multiplier),
                            names[i] \in rounded)
         IN  IF r.ret # "True"
             THEN [ret |-> "True", fields |-> Restore(fs, snapshots)]
             ELSE AssignReread([fs EXCEPT ![names[i]] = r.field], multiplicand,
                               multiplier, names, i + 1, rounded, snapshots)

_multiply_reread(fs, multiplicand, multiplier, additional_receivers, rounded_receivers) ==
    IF \/ multiplicand_value(fs, multiplicand).kind # "finite"
       \/ ~(SeqRange(receiving_names(multiplier, additional_receivers)) \subseteq DOMAIN fs)
    THEN [ret |-> "raise", fields |-> fs, product |-> InvalidOperation]
    ELSE [product |-> Product(fs, multiplicand, multiplier)] @@
         AssignReread(fs, multiplicand, multiplier,
                      receiving_names(multiplier, additional_receivers), 1,
                      rounded_receivers,
                      Snapshots(fs, receiving_names(multiplier, additional_receivers)))

_multiply(fs, multiplicand, multiplier, additional_receivers, rounded_receivers) ==
    LET names == receiving_names(multiplier, additional_receivers)
    IN  IF \/ multiplicand_value(fs, multiplicand).kind = "invalid"
           \/ ~(SeqRange(names) \subseteq DOMAIN fs)
        THEN [ret |-> "raise", fields |-> fs, product |-> InvalidOperation]
        ELSE LET product == Product(fs, multiplicand, multiplier)
             IN  IF product.kind = "invalid"
                 THEN [ret |-> "raise", fields |-> fs, product |-> product]
                 ELSE [product |-> product] @@
                      Assign(fs, names, 1, product, rounded_receivers,
                             Snapshots(fs, names))

(***************************************************************************)
(* Bounds and inputs of the model                                          *)
(***************************************************************************)
\* calls in a run of the engine
MaxCalls == 2
\* calls in a run of Field.set alone
MaxSets == 1

MultiplicandTokens == {"MULT5", "WRK_DU_4P1_1", "4.99", "-1.3"}

MultiplierNames == {"MULT4", "MULT5", "MULT6", "WRK_DU_5V1_1"}

AdditionalReceivers == {<<>>, <<"MULT5">>, <<"WRK_DU_6V0_2", "MULT6">>}

\* the rounded sets tried for a receiver list: none, the multiplier alone,
\* the additional receivers alone
RoundedChoices(names) == {{}, {names[1]}, SeqRange(Tail(names))}

\* a token that is no field, no constant and no number
UnknownTokens == {"NOPE"}

\* the receiver of a literal of more digits than the context keeps
LongMultiplierNames == {"MULT5"}

\* set calls made between multiplies
SetNames == {"MULT5", "MULT6"}
SetRaws == {"2", "abc"}

\* set calls of the runs of Field.set alone
FieldSetNames ==
    {"MULT1", "MULT4", "MULT5", "MULT6", "WRK_DS_01V00", "WRK_DU_4P1_1",
     "WRK_DU_5V1_1"}

FieldSetRaws ==
    {"0", "1", "9", "-9", "9.9", "10", "-10", "99", "99.4", "99.5", "-99.5",
     "99.95", "100", "-0.4", "-0.5", "0.05", "-0.05", "72.8", "-72.8",
     "12345.64", "12345.65", "-12345.65", "0.00001", LongLiteral,
     "abc", "NaN", "Infinity"}

(***************************************************************************)
(* State: the field registry, the number of calls made so far, and a       *)
(* record of the last call (its arguments, the registry before it, the     *)
(* value offered to the receivers and what it returned).                   *)
(***************************************************************************)
NoCall ==
    [op |-> "none", ret |-> "none", token |-> "", name |-> "",
     additional |-> <<>>, rounded |-> {}, offered |-> InvalidOperation,
     pre |-> _init_fields]

Init ==
    /\ fields = _init_fields
    /\ last = NoCall
    /\ calls = 0

\* self._multiply(multiplicand, multiplier, additional_receivers, rounded_receivers)
Multiply(multiplicand, multiplier, additional_receivers, rounded_receivers) ==
    /\ \E r \in {_multiply(fields, multiplicand, multiplier,
                           additional_receivers, rounded_receivers)} :
           /\ fields' = r.fields
           /\ last' = [op |-> "multiply", ret |-> r.ret, token |-> multiplicand,
                       name |-> multiplier, additional |-> additional_receivers,
                       rounded |-> rounded_receivers, offered |-> r.product,
                       pre |-> fields]
    /\ calls' = calls + 1

\* self.fields[name].set(raw, rounded)
Set(name, raw, rounded) ==
    /\ \E r \in {Field_set(fields[name], Decimal(raw), rounded)} :
           /\ fields' = [fields EXCEPT ![name] = r.field]
           /\ last' = [op |-> "set", ret |-> r.ret, token |-> raw,
                       name |-> name, additional |-> <<>>,
                       rounded |-> IF rounded THEN {name} ELSE {},
                       offered |-> Decimal(raw), pre |-> fields]
    /\ calls' = calls + 1

MultiplyStep ==
    /\ calls < MaxCalls
    /\ \E multiplicand \in MultiplicandTokens, multiplier \in MultiplierNames,
          additional \in AdditionalReceivers :
           \E rounded \in RoundedChoices(receiving_names(multiplier, additional)) :
               Multiply(multiplicand, multiplier, additional, rounded)

\* a multiplicand that does not resolve
UnresolvedStep ==
    /\ calls < MaxCalls
    /\ \E multiplicand \in UnknownTokens, multiplier \in MultiplierNames :
           Multiply(multiplicand, multiplier, <<>>, {})

LongMultiplyStep ==
    /\ calls < MaxCalls
    /\ \E multiplier \in LongMultiplierNames, rounded \in BOOLEAN :
           Multiply(LongLiteral, multiplier, <<>>,
                    IF rounded THEN {multiplier} ELSE {})

SetStep ==
    /\ calls < MaxCalls
    /\ \E name \in SetNames, raw \in SetRaws, rounded \in BOOLEAN :
           Set(name, raw, rounded)

Next == MultiplyStep \/ UnresolvedStep \/ LongMultiplyStep \/ SetStep

\* the engine: multiplies, with set calls between them
Spec == Init /\ [][Next]_vars

FieldSetStep ==
    /\ calls < MaxSets
    /\ \E name \in FieldSetNames, raw \in FieldSetRaws, rounded \in BOOLEAN :
           Set(name, raw, rounded)

\* Field.set alone, on the fields of the registry
SetSpec == Init /\ [][FieldSetStep]_vars

(***************************************************************************)
(* The calls the program's tests make (MPY-TEST-F1-4, F1-8, F1-9, F1-10,   *)
(* F1-14, F1-17 and their set-up), and further calls of the same engine:   *)
(* zero multiplicands, receiver lists that name a field twice, names that  *)
(* occur only as multiplicand or only in the rounded set, and names that   *)
(* do not resolve.                                                         *)
(***************************************************************************)
\* calls in a run of the registry
MaxOps == 2

Case(multiplicand, multiplier, additional_receivers, rounded_receivers) ==
    [multiplicand |-> multiplicand, multiplier |-> multiplier,
     additional |-> additional_receivers, rounded |-> rounded_receivers]

\* self.fields[name].set(raw) of the tests' set-up
SetUps ==
    {<<"MULT6", "20">>, <<"WRK_DS_02V00", "-99">>, <<"WRK_DS_02V00", "-1">>,
     <<"WRK_DS_02V00", "0">>, <<"MULT5", "2">>, <<"MULT4", "-1">>,
     <<"MULT5", "10">>, <<"MULT5", "abc">>}

F1_4 == Case("4.99", "MULT6", <<>>, {"MULT6"})
F1_8 == Case("AZERO_DS_05V05", "WRK_DS_02V00", <<>>, {})
F1_9 == Case("99.5", "WRK_DS_02V00", <<>>, {"WRK_DS_02V00"})
F1_10 == Case("99.4", "WRK_DS_02V00", <<>>, {"WRK_DS_02V00"})
F1_17 ==
    Case("WRK_DU_4P1_1", "WRK_DU_5V1_1",
         <<"WRK_DU_2P4_1", "WRK_DU_6V0_1", "WRK_DU_6V0_2", "WRK_DU_0V12_1">>,
         {"WRK_DU_5V1_1", "WRK_DU_2P4_1", "WRK_DU_6V0_1"})

TestCases ==
    {F1_4, F1_8, F1_9, F1_10, F1_17,
     Case("4.99", "MULT6", <<>>, {}),
     Case("99.5", "WRK_DS_02V00", <<>>, {}),
     Case("99.5", "MULT4", <<"WRK_DS_05V00">>, {"MULT4"}),
     Case("99.4", "MULT4", <<"WRK_DS_05V00">>, {"MULT4", "WRK_DS_05V00"})}

ZeroCases ==
    {Case("0", "MULT4", <<"MULT5", "WRK_DU_5V1_1">>, {}),
     Case("0", "MULT4", <<"MULT5", "WRK_DU_5V1_1">>, {"MULT4", "MULT5", "WRK_DU_5V1_1"}),
     Case("AZERO_DS_05V05", "MULT1", <<"WRK_DU_0V12_1", "WRK_DS_02V00">>, {"MULT1"}),
     Case("WRK_DU_2V0_2", "WRK_DU_6V0_1", <<"WRK_DS_06V06">>, {})}

RepeatedCases ==
    {Case("4.99", "MULT6", <<"MULT6", "MULT5">>, {}),
     Case("4.99", "MULT6", <<"MULT5", "MULT6">>, {"MULT6"}),
     Case("2", "MULT5", <<"MULT6", "MULT5">>, {}),
     Case("0.5", "MULT5", <<"MULT5", "MULT6", "MULT6">>, {"MULT5"}),
     Case("2", "MULT6", <<"MULT6">>, {"MULT6"}),
     Case("MULT5", "MULT5", <<"MULT5">>, {})}

FrameCases ==
    {Case("MULT5", "MULT6", <<>>, {"MULT4"}),
     Case("MULT5", "MULT6", <<"WRK_DS_02V00">>, {"MULT4", "MULT5"}),
     Case("MULT6", "MULT6", <<>>, {"MULT5"}),
     Case("A06THREES_DS_03V03", "WRK_DS_05V00", <<"MULT6">>, {"MULT1"})}

\* a name that is no field
UnknownNames == {"NOFIELD", "AZERO_DS_05V05"}

UnknownCases ==
    {Case("NOPE", "MULT5", <<"MULT6">>, {}),
     Case("abc", "MULT6", <<>>, {"MULT6"})}
    \cup {Case("4", n, <<>>, {}) : n \in UnknownNames}
    \cup {Case("4", n, <<"MULT5">>, {"MULT5"}) : n \in UnknownNames}
    \cup {Case("2", "MULT5", <<"MULT6", n>>, {}) : n \in UnknownNames}
    \cup {Case("NOPE", n, <<>>, {}) : n \in UnknownNames}

MultiplyCase(c) == Multiply(c.multiplicand, c.multiplier, c.additional, c.rounded)

SetUpStep ==
    /\ calls < MaxOps
    /\ \E s \in SetUps : Set(s[1], s[2], FALSE)

TestMultiplyStep == calls < MaxOps /\ \E c \in TestCases : MultiplyCase(c)
ZeroMultiplyStep == calls < MaxOps /\ \E c \in ZeroCases : MultiplyCase(c)
RepeatedReceiverStep == calls < MaxOps /\ \E c \in RepeatedCases : MultiplyCase(c)
FrameStep == calls < MaxOps /\ \E c \in FrameCases : MultiplyCase(c)
UnknownNameStep == calls < MaxOps /\ \E c \in UnknownCases : MultiplyCase(c)

RegistryNext ==
    \/ SetUpStep
    \/ TestMultiplyStep
    \/ ZeroMultiplyStep
    \/ RepeatedReceiverStep
    \/ FrameStep
    \/ UnknownNameStep

\* the registry under the tests' calls
RegistrySpec == Init /\ [][RegistryNext]_vars

(***************************************************************************)
(* A multiply that ended in a size error, called again with the same       *)
(* arguments.                                                              *)
(***************************************************************************)
\* repetitions of a call
MaxRetries == 1

PrepareStep ==
    /\ last.op = "none"
    /\ \E s \in SetUps : Set(s[1], s[2], FALSE)

AttemptStep ==
    /\ last.op \in {"none", "set"}
    /\ \E c \in TestCases \cup RepeatedCases \cup FrameCases : MultiplyCase(c)

RetryStep ==
    /\ last.op = "multiply" /\ last.ret = "True"
    /\ calls < MaxRetries + 2
    /\ Multiply(last.token, last.name, last.additional, last.rounded)

RetrySpec == Init /\ [][PrepareStep \/ AttemptStep \/ RetryStep]_vars

(***************************************************************************)
(* What the last call was about                                            *)
(***************************************************************************)
Multiplied == last.op = "multiply"

Receivers == SeqRange(receiving_names(last.name, last.additional))

\* the value offered, quantized under the policy of receiver n
QuantizedFor(n) == Field_quantize(last.pre[n], last.offered, n \in last.rounded)

\* receiver n accepts the value offered
FitsReceiver(n) ==
    /\ QuantizedFor(n).kind = "finite"
    /\ Field_fits(last.pre[n], QuantizedFor(n)) = "True"

\* the operands as they were before the call
PreMultiplicand == _resolve_value(last.pre, last.token)
PreMultiplier == last.pre[last.name].value

(***************************************************************************)
(* C1. Atomicity: after a multiply that returned size_error = true, every  *)
(* receiver (the multiplier field and each additional receiver) holds the  *)
(* value it held immediately before the call, also when an earlier         *)
(* receiver had already been set before a later one failed.                *)
(***************************************************************************)
C1_Atomicity ==
    (Multiplied /\ last.ret = "True") =>
        \A n \in Receivers : fields[n].value = last.pre[n].value

\* a size error raised by an additional receiver after the multiplier had
\* accepted a product different from its old value
C1_Witness ==
    /\ Multiplied /\ last.ret = "True"
    /\ last.additional # <<>>
    /\ FitsReceiver(last.name)
    /\ ~DecEq(QuantizedFor(last.name), PreMultiplier)

(***************************************************************************)
(* C2. After a multiply that returned size_error = false, every receiver   *)
(* holds the exact product of the multiplicand and the multiplier,         *)
(* quantized to the receiver's own digits_right, rounded half up if the    *)
(* receiver is in the rounded set and truncated otherwise.                 *)
(***************************************************************************)
C2_ExactProductQuantized ==
    (Multiplied /\ last.ret = "False") =>
        \A n \in Receivers :
            fields[n].value =
                Field_quantize(last.pre[n], ExactMul(PreMultiplicand, PreMultiplier),
                               n \in last.rounded)

(***************************************************************************)
(* C3. A multiply that returns reports size_error = true exactly when the  *)
(* product, quantized under the policy of some receiver, violates that     *)
(* receiver's width or sign constraint.                                    *)
(***************************************************************************)
C3_SizeErrorIff ==
    (Multiplied /\ last.ret \in {"True", "False"}) =>
        ((last.ret = "True") <=> (\E n \in Receivers : ~FitsReceiver(n)))

\* a size error that only the last of three receivers raises
C3_Witness ==
    /\ Multiplied /\ last.ret = "True"
    /\ Len(last.additional) = 2
    /\ FitsReceiver(last.name)
    /\ FitsReceiver(last.additional[1])
    /\ ~FitsReceiver(last.additional[2])

SetCall == last.op = "set"

Target == last.pre[last.name]
Offered == last.offered
Stored == fields[last.name].value
Rounded == last.name \in last.rounded

\* the quantized input q of the last call
Quantized == Field_quantize(Target, Offered, Rounded)

Abs(d) == Dec(0, d.int, d.exp)
Negative(d) == IsFinite(d) /\ d.sign = 1 /\ ~IsZeroCoef(d.int)
DecLeq(a, b) == IsFinite(a) /\ IsFinite(b) /\ DecCmp(a, b) <= 0
Nines(n) == [i \in 1..n |-> 9]

\* the coefficient s - 1, for s # 0
SubOne(s) ==
    LET k == CHOOSE i \in 1..Len(s) :
                 s[i] # 0 /\ \A j \in (i + 1)..Len(s) : s[j] = 0
    IN  [i \in 1..Len(s) |-> IF i < k THEN s[i] ELSE IF i = k THEN s[i] - 1 ELSE 9]

\* 10^digits_left, one unit and half a unit in the last place of field f
TenToLeft(f) == Dec(0, <<1>> \o Zeros(f.digits_left), 0)
Unit(f) == Dec(0, <<1>>, 0 - f.digits_right)
HalfUnit(f) == Dec(0, <<5>>, 0 - f.digits_right - 1)

(***************************************************************************)
(* C5. Whenever Field.set returns failure (malformed input, or a quantized *)
(* value that violates the width or sign constraint) the field's stored    *)
(* value is what it was before the call; whenever it returns success the   *)
(* stored value is the quantized input.                                    *)
(***************************************************************************)
C5_SetFailureKeepsValue ==
    SetCall =>
        /\ last.ret = "False" => fields = last.pre
        /\ last.ret = "True" =>
              /\ Stored = Quantized
              /\ fields = [last.pre EXCEPT ![last.name].value = Quantized]
        /\ ~IsFinite(Offered) => fields = last.pre

\* a numeric input refused by the fit check, whose quantized value differs
\* from the value the field keeps
C5_Witness ==
    /\ SetCall /\ last.ret = "False"
    /\ IsFinite(Quantized)
    /\ ~DecEq(Quantized, Target.value)

(***************************************************************************)
(* C6. Fit rule on the quantized value q: Field.set succeeds if and only   *)
(* if -10^digits_left < q < 10^digits_left, strictly, and, for an unsigned *)
(* field, q is not negative.  q = 10^digits_left and q = -10^digits_left   *)
(* fail; q = 10^digits_left minus one unit in the last place succeeds.     *)
(***************************************************************************)
\* |q| < 10^digits_left, by counting the integer digits of q
WithinWidth(q, f) ==
    IsZeroCoef(q.int) \/ Len(StripZeros(q.int)) + q.exp <= f.digits_left

IsLimit(q, f) ==
    IsFinite(q) /\ StripZeros(q.int) = <<1>> \o Zeros(f.digits_left + f.digits_right)

C6_FitRule ==
    SetCall =>
        /\ (last.ret = "True") <=>
              /\ IsFinite(Quantized)
              /\ WithinWidth(Quantized, Target)
              /\ Target.signed \/ ~Negative(Quantized)
        /\ IsLimit(Quantized, Target) => last.ret = "False"
        /\ ( /\ IsFinite(Quantized)
             /\ Quantized.int = Nines(Target.digits_left + Target.digits_right)
             /\ Target.signed \/ Quantized.sign = 0 ) => last.ret = "True"

\* q = -10^digits_left offered to a signed field
C6_Witness ==
    /\ SetCall /\ last.ret = "False"
    /\ Target.signed
    /\ IsLimit(Quantized, Target)
    /\ Quantized.sign = 1

(***************************************************************************)
(* C7 as stated. For a field with signed = false, set fails for any        *)
(* negative value, whatever its magnitude and rounding mode, and leaves    *)
(* the field unchanged.                                                    *)
(***************************************************************************)
C7_Original ==
    (SetCall /\ ~Target.signed /\ Negative(Offered)) =>
        last.ret = "False" /\ fields = last.pre

(***************************************************************************)
(* C7 amended. For a field with signed = false, set fails and leaves the   *)
(* field unchanged for every negative value whose quantized value is not   *)
(* zero; a negative value that quantizes to zero (magnitude below one unit *)
(* in the last place when truncating, below half a unit when rounding) is  *)
(* accepted and the field then holds zero.                                 *)
(***************************************************************************)
C7_Amended ==
    (SetCall /\ ~Target.signed /\ Negative(Offered)) =>
        IF DecLess(Abs(Offered), IF Rounded THEN HalfUnit(Target) ELSE Unit(Target))
        THEN last.ret = "True" /\ IsZero(Stored)
        ELSE last.ret = "False" /\ fields = last.pre

\* a negative value of magnitude at least one unit refused by an unsigned
\* field that is wide enough for the magnitude
C7_Witness ==
    /\ SetCall /\ ~Target.signed /\ Negative(Offered)
    /\ last.ret = "False"
    /\ DecLess(Abs(Offered), TenToLeft(Target))
    /\ ~DecLess(Abs(Offered), Unit(Target))

C9_TruncationLaw ==
    (SetCall /\ ~Rounded) =>
        /\ last.ret = "True" =>
              /\ Stored.exp = 0 - Target.digits_right
              /\ Stored.sign = Offered.sign
              /\ DecLeq(Abs(Stored), Abs(Offered))
              /\ DecLess(Abs(Offered),
                         Dec(0, AddOne(Stored.int), 0 - Target.digits_right))
        /\ (last.token = "12345.65" /\ last.name = "WRK_DU_5V1_1") =>
              last.ret = "True" /\ Stored = Dec(0, <<1, 2, 3, 4, 5, 6>>, -1)
        /\ (last.token = "-72.8" /\ last.name = "MULT4") =>
              last.ret = "True" /\ Stored = Dec(1, <<7, 2>>, 0)

\* a negative input stored truncated, with digits discarded
C9_Witness ==
    /\ SetCall /\ ~Rounded /\ last.ret = "True"
    /\ Negative(Stored)
    /\ ~DecEq(Stored, Offered)

(***************************************************************************)
(* C10. Rounding law: set with rounding = round-half-up stores the         *)
(* multiple of 10^-digits_right nearest to the input, exact ties going     *)
(* away from zero for both signs: 12345.65 into a field with               *)
(* digits_right = 1 yields 12345.7, 12345.64 yields 12345.6, and           *)
(* -1.3 x -56 = 72.8 rounded to 0 fractional digits yields 73.             *)
(***************************************************************************)
C10_RoundHalfUpLaw ==
    (SetCall /\ Rounded) =>
        /\ last.ret = "True" =>
              /\ Stored.exp = 0 - Target.digits_right
              /\ Stored.sign = Offered.sign
              /\ DecLess(Abs(Offered),
                         Dec(0, Stored.int \o <<5>>, 0 - Target.digits_right - 1))
              /\ ~IsZero(Stored) =>
                    DecLeq(Dec(0, SubOne(Stored.int) \o <<5>>,
                               0 - Target.digits_right - 1),
                           Abs(Offered))
        /\ (last.token = "12345.65" /\ last.name = "WRK_DU_5V1_1") =>
              last.ret = "True" /\ Stored = Dec(0, <<1, 2, 3, 4, 5, 7>>, -1)
        /\ (last.token = "12345.64" /\ last.name = "WRK_DU_5V1_1") =>
              last.ret = "True" /\ Stored = Dec(0, <<1, 2, 3, 4, 5, 6>>, -1)
        /\ (last.token = "72.8" /\ last.name = "MULT4") =>
              /\ last.ret = "True" /\ Stored = Dec(0, <<7, 3>>, 0)
              /\ DecMul(Decimal("-1.3"), _init_fields["MULT4"].value) = Offered
              /\ _multiply(_init_fields, "-1.3", "MULT4", <<>>, {"MULT4"})
                     .fields["MULT4"].value = Stored

\* an exact tie stored away from zero, where rounding to even would differ
C10_Witness ==
    /\ SetCall /\ Rounded /\ last.ret = "True"
    /\ ~IsZero(Stored)
    /\ Abs(Offered) = Dec(0, SubOne(Stored.int) \o <<5>>, 0 - Target.digits_right - 1)
    /\ Stored.int[Len(Stored.int)] % 2 = 1

(***************************************************************************)
(* C11. Field invariant: starting from the registry built by _init_fields, *)
(* after any sequence of set calls and multiply calls (successful,         *)
(* size-error, or failing with a resolution error), every field's value is *)
(* a multiple of 10^-digits_right, lies strictly between -10^digits_left   *)
(* and 10^digits_left, and is not negative when the field is unsigned.     *)
(***************************************************************************)
\* v is a multiple of 10^-digits_right: no non-zero digit below that place
MultipleOfUnit(v, f) ==
    \/ v.exp >= 0 - f.digits_right
    \/ \A i \in 1..Len(v.int) :
           i > Len(v.int) - ((0 - f.digits_right) - v.exp) => v.int[i] = 0

FieldInvariant(f) ==
    /\ IsFinite(f.value)
    /\ MultipleOfUnit(f.value, f)
    /\ WithinWidth(f.value, f)
    /\ f.signed \/ ~Negative(f.value)

C11_FieldInvariant == \A n \in DOMAIN fields : FieldInvariant(fields[n])

\* a size error on a registry that earlier calls have changed
C11_Witness ==
    /\ Multiplied /\ last.ret = "True"
    /\ last.pre # _init_fields
    /\ \E n \in Receivers : FitsReceiver(n)

(***************************************************************************)
(* C12. Idempotent re-attempt: if a multiply returns size_error = true,    *)
(* calling multiply again immediately with exactly the same arguments      *)
(* again returns size_error = true and again leaves the whole registry     *)
(* equal to the state before the first call.                               *)
(***************************************************************************)
SameArguments ==
    /\ last'.op = "multiply"
    /\ last'.token = last.token
    /\ last'.name = last.name
    /\ last'.additional = last.additional
    /\ last'.rounded = last.rounded

C12_IdempotentReattempt ==
    [][(Multiplied /\ last.ret = "True" /\ SameArguments) =>
           /\ last'.ret = "True"
           /\ fields' = last.pre
           /\ last'.pre = last.pre]_vars

\* a set-up, a multiply that wrote a receiver before a later one failed, and
\* the same multiply again
C12_Witness ==
    /\ calls = MaxRetries + 2
    /\ Multiplied /\ last.ret = "True"
    /\ last.pre # _init_fields
    /\ FitsReceiver(last.name)
    /\ ~DecEq(QuantizedFor(last.name), PreMultiplier)

(***************************************************************************)
(* C13. Resolution errors are distinct from size errors: a multiply whose  *)
(* multiplicand token is neither a known field name, a known constant name *)
(* nor a parseable numeric literal, or whose multiplier or additional      *)
(* receiver name is not a known field, ends in an exception rather than    *)
(* returning size_error = true or false, and leaves every field unchanged. *)
(***************************************************************************)
Unresolvable(token) ==
    /\ token \notin FieldNames
    /\ token \notin ConstantNames
    /\ Decimal(token).kind = "invalid"

C13_ResolutionErrors ==
    (Multiplied /\ (Unresolvable(last.token) \/ ~(Receivers \subseteq FieldNames))) =>
        /\ last.ret = "raise"
        /\ fields = last.pre

\* an unknown additional receiver listed after receivers that would have
\* accepted the product
C13_Witness ==
    /\ Multiplied /\ last.ret = "raise"
    /\ ~Unresolvable(last.token)
    /\ last.name \in FieldNames
    /\ Len(last.additional) > 1
    /\ last.additional[Len(last.additional)] \notin FieldNames
    /\ Field_set(last.pre[last.name], DecMul(PreMultiplicand, PreMultiplier), FALSE).ret
           = "True"
    /\ ~DecEq(DecMul(PreMultiplicand, PreMultiplier), PreMultiplier)

(***************************************************************************)
(* C14. Frame: a multiply, whatever its outcome, changes no field other    *)
(* than those named in its receiver list (the multiplier and the           *)
(* additional receivers); a field used only as the multiplicand keeps its  *)
(* value, and names that appear only in the rounded set are not written.   *)
(***************************************************************************)
C14_Frame ==
    Multiplied =>
        /\ DOMAIN fields = DOMAIN last.pre
        /\ \A n \in DOMAIN fields \ Receivers : fields[n] = last.pre[n]
        /\ \A n \in DOMAIN fields :
               fields[n] = [last.pre[n] EXCEPT !.value = fields[n].value]

\* a successful multiply whose multiplicand is a field outside the receiver
\* list and whose rounded set names a field outside the receiver list
C14_Witness ==
    /\ Multiplied /\ last.ret = "False"
    /\ last.token \in FieldNames \ Receivers
    /\ (last.rounded \cap FieldNames) \ Receivers # {}
    /\ fields[last.name] # last.pre[last.name]

(***************************************************************************)
(* C15. Rounding is applied before the fit check: for a receiver in the    *)
(* rounded set with digits_left = d, a product whose truncation fits but   *)
(* whose round-half-up value reaches magnitude 10^d gives size_error =     *)
(* true and leaves the receiver unchanged (20 x 4.99 = 99.8 and            *)
(* -1 x 99.5 = -99.5 into 2-digit fields are size errors), while a product *)
(* whose rounded value stays below 10^d is stored (-1 x 99.4 gives -99     *)
(* with no size error).                                                    *)
(***************************************************************************)
\* 10^digits_left minus half a unit in the last place of f
RoundLimit(f) ==
    Dec(0, Nines(f.digits_left + f.digits_right) \o <<5>>, 0 - f.digits_right - 1)

\* the truncation of the value offered fits f, its round-half-up value
\* reaches 10^digits_left
RoundsOut(f) ==
    /\ IsFinite(last.offered)
    /\ DecLess(Abs(last.offered), TenToLeft(f))
    /\ ~DecLess(Abs(last.offered), RoundLimit(f))
    /\ f.signed \/ ~Negative(last.offered)

\* stored is v rounded half up to the unit of f
IsHalfUpOf(stored, v, f) ==
    /\ stored.exp = 0 - f.digits_right
    /\ stored.sign = v.sign
    /\ DecLess(Abs(v), Dec(0, stored.int \o <<5>>, 0 - f.digits_right - 1))
    /\ ~IsZero(stored) =>
          DecLeq(Dec(0, SubOne(stored.int) \o <<5>>, 0 - f.digits_right - 1), Abs(v))

C15_RoundingBeforeFit ==
    (Multiplied /\ last.ret \in {"True", "False"}) =>
        /\ \A n \in Receivers \cap last.rounded :
               /\ RoundsOut(last.pre[n]) =>
                      last.ret = "True" /\ fields[n] = last.pre[n]
               /\ ( /\ Receivers = {n}
                    /\ DecLess(Abs(last.offered), RoundLimit(last.pre[n]))
                    /\ last.pre[n].signed \/ ~Negative(last.offered) ) =>
                      /\ last.ret = "False"
                      /\ IsHalfUpOf(fields[n].value, last.offered, last.pre[n])
        /\ (last.token = "4.99" /\ last.name = "MULT6" /\ last.additional = <<>>
              /\ last.rounded = {"MULT6"} /\ DecEq(PreMultiplier, Decimal("20"))) =>
               last.ret = "True" /\ DecEq(fields["MULT6"].value, Decimal("20"))
        /\ (last.token = "99.5" /\ last.name = "WRK_DS_02V00" /\ last.additional = <<>>
              /\ last.rounded = {"WRK_DS_02V00"} /\ DecEq(PreMultiplier, Decimal("-1"))) =>
               last.ret = "True" /\ DecEq(fields["WRK_DS_02V00"].value, Decimal("-1"))
        /\ (last.token = "99.4" /\ last.name = "WRK_DS_02V00" /\ last.additional = <<>>
              /\ last.rounded = {"WRK_DS_02V00"} /\ DecEq(PreMultiplier, Decimal("-1"))) =>
               last.ret = "False" /\ fields["WRK_DS_02V00"].value = Decimal("-99")

\* -1 x 99.5 offered to the rounded 2-digit field WRK_DS_02V00
C15_Witness ==
    /\ Multiplied /\ last.ret = "True"
    /\ last.token = "99.5" /\ last.name = "WRK_DS_02V00"
    /\ last.rounded = {"WRK_DS_02V00"}
    /\ DecEq(PreMultiplier, Decimal("-1"))
    /\ RoundsOut(last.pre["WRK_DS_02V00"])

(***************************************************************************)
(* C16. Multiplying by a zero multiplicand never raises a size error: for  *)
(* any multiplier field, additional receivers and rounded set, a multiply  *)
(* whose multiplicand resolves to 0 returns size_error = false and leaves  *)
(* every receiver holding 0, whatever the receivers' widths, signedness    *)
(* and previous values (a signed 2-digit field holding -99 becomes 0).     *)
(***************************************************************************)
C16_ZeroMultiplicand ==
    (Multiplied /\ Receivers \subseteq FieldNames /\ IsZero(PreMultiplicand)) =>
        /\ last.ret = "False"
        /\ \A n \in Receivers :
               /\ IsZero(fields[n].value)
               /\ fields[n].value.exp = 0 - fields[n].digits_right

\* MPY-TEST-F1-8: zero times the signed 2-digit field holding -99
C16_Witness ==
    /\ Multiplied /\ last.ret = "False"
    /\ last.token = "AZERO_DS_05V05" /\ last.name = "WRK_DS_02V00"
    /\ PreMultiplier = Decimal("-99")
    /\ IsZero(fields["WRK_DS_02V00"].value)

(***************************************************************************)
(* C17. Test F1-17: with WRK_DU_4P1_1 = 0.00001 as multiplicand,           *)
(* WRK_DU_5V1_1 = 12345.6 as multiplier, additional receivers              *)
(* WRK_DU_2P4_1 = 990000, WRK_DU_6V0_1 = 99999, WRK_DU_6V0_2 = 99999,      *)
(* WRK_DU_0V12_1 = 0.00001 and rounded set {WRK_DU_5V1_1, WRK_DU_2P4_1,    *)
(* WRK_DU_6V0_1}, the multiply leaves WRK_DU_5V1_1 = 0.1,                  *)
(* WRK_DU_2P4_1 = 0, WRK_DU_6V0_1 = 1, WRK_DU_6V0_2 = 0 and                *)
(* WRK_DU_0V12_1 = 0.0000000001.                                           *)
(***************************************************************************)
C17_TestF1_17 ==
    ( /\ Multiplied
      /\ Case(last.token, last.name, last.additional, last.rounded) = F1_17
      /\ DecEq(last.pre["WRK_DU_4P1_1"].value, Decimal("0.00001"))
      /\ DecEq(last.pre["WRK_DU_5V1_1"].value, Decimal("12345.6"))
      /\ DecEq(last.pre["WRK_DU_2P4_1"].value, Decimal("990000"))
      /\ DecEq(last.pre["WRK_DU_6V0_1"].value, Decimal("99999"))
      /\ DecEq(last.pre["WRK_DU_6V0_2"].value, Decimal("99999"))
      /\ DecEq(last.pre["WRK_DU_0V12_1"].value, Decimal("0.00001")) ) =>
        /\ DecEq(fields["WRK_DU_5V1_1"].value, Decimal("0.1"))
        /\ DecEq(fields["WRK_DU_2P4_1"].value, Decimal("0"))
        /\ DecEq(fields["WRK_DU_6V0_1"].value, Decimal("1"))
        /\ DecEq(fields["WRK_DU_6V0_2"].value, Decimal("0"))
        /\ DecEq(fields["WRK_DU_0V12_1"].value, Dec(0, <<1>>, -10))

(***************************************************************************)
(* C18. Rollback by direct assignment is equivalent to rollback by         *)
(* re-invoking set: for every field that satisfies the field invariant,    *)
(* set(read(), truncate) and set(read(), round-half-up) both succeed and   *)
(* leave the value unchanged, so after any size-error multiply the         *)
(* registry produced by the direct restore of snapshots equals the         *)
(* registry that restoring through set would produce.                      *)
(***************************************************************************)
ReceiverList == receiving_names(last.name, last.additional)

\* the position of the first receiver that refuses the value offered
FirstFailure ==
    CHOOSE k \in 1..Len(ReceiverList) :
        /\ ~FitsReceiver(ReceiverList[k])
        /\ \A j \in 1..(k - 1) : FitsReceiver(ReceiverList[j])

\* field n when the failing set returns: written if listed before the failure
Intermediate(n) ==
    IF \E j \in 1..(FirstFailure - 1) : ReceiverList[j] = n
    THEN [last.pre[n] EXCEPT !.value = QuantizedFor(n)]
    ELSE last.pre[n]

\* set(value, rounded) on field f succeeds and f then holds value
SetRestores(f, value, rounded) ==
    /\ Field_set(f, value, rounded).ret = "True"
    /\ DecEq(Field_set(f, value, rounded).field.value, value)
    /\ Field_set(f, value, rounded).field =
           [f EXCEPT !.value = Field_set(f, value, rounded).field.value]

C18_RollbackEquivalence ==
    /\ \A n \in DOMAIN fields, rounded \in BOOLEAN :
           SetRestores(fields[n], fields[n].value, rounded)
    /\ (Multiplied /\ last.ret = "True") =>
           \A n \in Receivers, rounded \in BOOLEAN :
               /\ SetRestores(Intermediate(n), last.pre[n].value, rounded)
               /\ DecEq(Field_set(Intermediate(n), last.pre[n].value, rounded).field.value,
                        fields[n].value)

\* a size error raised after two receivers had been written
C18_Witness ==
    /\ Multiplied /\ last.ret = "True"
    /\ FirstFailure > 2
    /\ \E n \in Receivers : ~DecEq(Intermediate(n).value, last.pre[n].value)

(***************************************************************************)
(* C19. Repeated receiver names are handled against the pre-call state:    *)
(* when a field name appears more than once in the receiver list, its      *)
(* snapshot is its value before any receiver was written, so on size error *)
(* it is restored to the pre-call value and never to an intermediate       *)
(* product, and on success it holds the product quantized under its policy *)
(* exactly as if it had been listed once.                                  *)
(***************************************************************************)
HasRepeat == Len(ReceiverList) > Cardinality(Receivers)

\* the positions of s at which a name occurs for the first time
FirstOccurrences(s) == {i \in 1..Len(s) : \A j \in 1..(i - 1) : s[j] # s[i]}

\* s with every name listed once, in the order of first occurrence
ListedOnce(s) ==
    [k \in 1..Cardinality(FirstOccurrences(s)) |->
        s[CHOOSE i \in FirstOccurrences(s) :
              Cardinality({j \in FirstOccurrences(s) : j < i}) = k - 1]]

C19_RepeatedReceivers ==
    ( /\ Multiplied /\ last.ret \in {"True", "False"}
      /\ Receivers \subseteq FieldNames
      /\ HasRepeat ) =>
        /\ last.ret = "True" => \A n \in Receivers : fields[n] = last.pre[n]
        /\ last.ret = "False" =>
               \A n \in Receivers : fields[n].value = QuantizedFor(n)
        /\ \E once \in {_multiply(last.pre, last.token, last.name,
                                  Tail(ListedOnce(ReceiverList)), last.rounded)} :
               once.ret = last.ret /\ once.fields = fields

\* a size error raised after a repeated name had been written twice with a
\* value other than the one it held
C19_Witness ==
    /\ Multiplied /\ last.ret = "True"
    /\ \E i, j \in 1..(FirstFailure - 1) :
           /\ i < j
           /\ ReceiverList[i] = ReceiverList[j]
           /\ ~DecEq(QuantizedFor(ReceiverList[i]), last.pre[ReceiverList[i]].value)

====
